---- MODULE Spec2Model ----
(***************************************************************************)
(* The request handlers of LinearServer (src/src/index.ts): the            *)
(* read-resource handler and the call-tool handler, run as JavaScript      *)
(* async functions.  A handler runs without interruption from its entry   *)
(* to its first await of a backend promise, and from the settling of that  *)
(* promise to the next await or to its return/throw.  Several invocations  *)
(* may be suspended at once; each owns its closure frame.                  *)
(*                                                                         *)
(* Strings the code inspects (uris) are sequences of one-character         *)
(* strings; strings the code only concatenates are sequences of chunks.    *)
(***************************************************************************)
EXTENDS Naturals, Integers, Sequences, FiniteSets, TLC

VARIABLES req, pc, frame, calls, resps, outcome, hung

vars == <<req, pc, frame, calls, resps, outcome, hung>>

\* ------------------------------------------------------------------ bounds
MaxRequests == 2
MaxPieces == 2

Slots == 1..MaxRequests

\* ------------------------------------------------------- string literals
ActiveUri == <<"l","i","n","e","a","r",":","/","/","i","s","s","u","e","s","/","a","c","t","i","v","e">>
TeamsUri == <<"l","i","n","e","a","r",":","/","/","t","e","a","m","s">>
IssuesPrefix == <<"l","i","n","e","a","r",":","/","/","i","s","s","u","e","s","/">>
ActiveLiteral == <<"a","c","t","i","v","e">>
EmptyString == <<>>

ToolNames == {"create_issue", "update_issue", "read_team_ids"}

\* ------------------------------------------------------ JavaScript values
Undefined == [t |-> "undefined"]

StartsWith(s, p) == Len(s) >= Len(p) /\ SubSeq(s, 1, Len(p)) = p

\* String.prototype.replace with a string pattern: the first occurrence only.
Occurrences(s, pat) ==
    {i \in 1..(Len(s) + 1) : i + Len(pat) - 1 <= Len(s) /\ SubSeq(s, i, i + Len(pat) - 1) = pat}

Min(S) == CHOOSE x \in S : \A y \in S : x <= y

Replace(s, pat, rep) ==
    IF Occurrences(s, pat) = {} THEN s
    ELSE LET i == Min(Occurrences(s, pat))
         IN SubSeq(s, 1, i - 1) \o rep \o SubSeq(s, i + Len(pat), Len(s))

\* error instanceof Error ? error.message : String(error)
ErrorText(error) == IF error.isError THEN error.message ELSE error.str

\* new McpError(code, message): an Error whose message the SDK prefixes with the code.
McpError(code, message) ==
    [isError |-> TRUE, code |-> code, message |-> <<"MCP error ", code, ": ">> \o message]

\* JSON.stringify(value, null, indent): undefined serializes to undefined.
Stringify(value, indent) ==
    IF value = Undefined THEN Undefined
    ELSE [t |-> "string", json |-> value, indent |-> indent]

\* `${x?.url}` for x an issue object or undefined
UrlText(x) == IF x = Undefined THEN <<"undefined">> ELSE x.url

\* arguments.key of a destructured argument bag
Get(bag, key) == IF key \in DOMAIN bag THEN bag[key] ELSE Undefined

\* ------------------------------------------------- handler step results
NoRequest == [kind |-> "none"]
NoOutcome == [kind |-> "none"]
NoFrame == [at |-> "none", request |-> NoRequest]

\* the handler suspends at an await of the promise of one backend call
Await(at, call) == [pc |-> "await", at |-> at, call |-> <<call>>, outcome |-> NoOutcome]
\* the handler settles (returns or throws) without a further backend call
Settle(out) == [pc |-> "done", at |-> "none", call |-> <<>>, outcome |-> out]

\* a protocol-level fault leaving the handler
Fault(error) == [kind |-> "fault", code |-> error.code, message |-> error.message]

\* a string built by concatenation or a template literal
Text(s) == [t |-> "string", s |-> s]

\* ------------------------------------------------ read-resource handler
\* variant: the read handler recovers a failure into a soft result, as the tool handler does
ReadCatchSoft(error) ==
    Settle([kind |-> "result",
            contents |-> <<[type |-> "text",
                            text |-> Text(<<"Linear API error: ">> \o ErrorText(error))]>>,
            isError |-> TRUE])

\* catch (error) { throw new McpError(ErrorCode.InternalError, ...) }
ReadCatch(error) ==
    Settle(Fault(McpError("InternalError", <<"Linear API error: ">> \o ErrorText(error))))

\* return { contents: [{ uri, mimeType, text: JSON.stringify(content, null, 2) }] }
ReadReturn(request, content) ==
    Settle([kind |-> "result",
            contents |-> <<[uri |-> request.params.uri,
                            mimeType |-> "application/json",
                            text |-> Stringify(content, 2)]>>])

\* variant: the template branch is tested before the two static uris
ReadStartTemplateFirst(request) ==
    LET uri == request.params.uri
    IN IF StartsWith(uri, IssuesPrefix)
       THEN LET issueId == Replace(uri, IssuesPrefix, EmptyString)
            IN IF issueId # ActiveLiteral
               THEN Await("issue", [op |-> "issue", id |-> issueId])
               ELSE ReadReturn(request, Undefined)
       ELSE IF uri = ActiveUri
       THEN Await("issues", [op |-> "issues", states |-> <<"started", "unstarted", "backlog">>])
       ELSE IF uri = TeamsUri
       THEN Await("teams", [op |-> "teams"])
       ELSE ReadCatch(McpError("InvalidRequest", <<"Unknown resource: ">> \o uri))

\* variant: no prefix test, every other uri is looked up as an issue
ReadStartNoPrefixTest(request) ==
    LET uri == request.params.uri
    IN IF uri = ActiveUri
       THEN Await("issues", [op |-> "issues", states |-> <<"started", "unstarted", "backlog">>])
       ELSE IF uri = TeamsUri
       THEN Await("teams", [op |-> "teams"])
       ELSE LET issueId == Replace(uri, IssuesPrefix, EmptyString)
            IN IF issueId # ActiveLiteral
               THEN Await("issue", [op |-> "issue", id |-> issueId])
               ELSE ReadReturn(request, Undefined)

\* from the handler's entry to its first await, or to its return/throw
ReadStart(request) ==
    LET uri == request.params.uri
    IN IF uri = ActiveUri
       THEN Await("issues", [op |-> "issues", states |-> <<"started", "unstarted", "backlog">>])
       ELSE IF uri = TeamsUri
       THEN Await("teams", [op |-> "teams"])
       ELSE IF StartsWith(uri, IssuesPrefix)
       THEN LET issueId == Replace(uri, IssuesPrefix, EmptyString)
            IN IF issueId # ActiveLiteral
               THEN Await("issue", [op |-> "issue", id |-> issueId])
               ELSE ReadReturn(request, Undefined)
       ELSE ReadCatch(McpError("InvalidRequest", <<"Unknown resource: ">> \o uri))

\* from the settling of the awaited backend promise to the return/throw
ReadResume(fr, response) ==
    IF ~response.ok THEN ReadCatch(response.error)
    ELSE IF fr.at \in {"issues", "teams"}
    THEN ReadReturn(fr.request, response.value.nodes)
    ELSE ReadReturn(fr.request, response.value)

\* --------------------------------------------------- call-tool handler
\* variant: the tool handler rethrows a failure as a protocol fault, as the read handler does
CallCatchRethrow(error) ==
    Settle(Fault(McpError("InternalError", <<"Linear API error: ">> \o ErrorText(error))))

\* catch (error) { return { content: [{type: "text", text: ...}], isError: true } }
CallCatch(error) ==
    Settle([kind |-> "result",
            content |-> <<[type |-> "text",
                           text |-> Text(<<"Linear API error: ">> \o ErrorText(error))]>>,
            isError |-> TRUE])

\* return { content: [{ type: "text", text }] }  (isError absent, read as false)
CallReturn(text) ==
    Settle([kind |-> "result",
            content |-> <<[type |-> "text", text |-> text]>>,
            isError |-> FALSE])

\* destructuring request.params.arguments when it is undefined
DestructureError ==
    [isError |-> TRUE, message |-> <<"Cannot destructure property of undefined">>]

CallStart(request) ==
    LET name == request.params.name
        arguments == request.params.arguments
    IN IF name = "create_issue"
       THEN IF ~arguments.present THEN CallCatch(DestructureError)
            ELSE Await("createIssue",
                       [op |-> "createIssue",
                        input |-> [title |-> Get(arguments.bag, "title"),
                                   description |-> Get(arguments.bag, "description"),
                                   teamId |-> Get(arguments.bag, "teamId"),
                                   priority |-> Get(arguments.bag, "priority")]])
       ELSE IF name = "update_issue"
       THEN IF ~arguments.present THEN CallCatch(DestructureError)
            ELSE Await("updateIssue",
                       [op |-> "updateIssue",
                        id |-> Get(arguments.bag, "issueId"),
                        input |-> [title |-> Get(arguments.bag, "title"),
                                   description |-> Get(arguments.bag, "description")]])
       ELSE IF name = "read_team_ids"
       THEN Await("toolTeams", [op |-> "teams"])
       ELSE CallCatch(McpError("MethodNotFound", <<"Unknown tool: ", name>>))

\* (await issue.issue)?.url : the payload's issue getter is a lazy fetch of the
\* created/updated issue when the payload names one, undefined otherwise
PayloadIssue(at, payload, label) ==
    IF payload.issue = Undefined
    THEN CallReturn(Text(<<label>> \o UrlText(Undefined)))
    ELSE Await(at, [op |-> "issue", id |-> payload.issue.id])

\* variant: a failed mutation is submitted again
CallResumeRetry(fr, response) ==
    IF ~response.ok /\ fr.at \in {"createIssue", "updateIssue"} THEN CallStart(fr.request)
    ELSE IF ~response.ok THEN CallCatch(response.error)
    ELSE IF fr.at = "createIssue"
    THEN PayloadIssue("createIssue.issue", response.value, "Created issue: ")
    ELSE IF fr.at = "createIssue.issue"
    THEN CallReturn(Text(<<"Created issue: ">> \o UrlText(response.value)))
    ELSE IF fr.at = "updateIssue"
    THEN PayloadIssue("updateIssue.issue", response.value, "Updated issue: ")
    ELSE IF fr.at = "updateIssue.issue"
    THEN CallReturn(Text(<<"Updated issue: ">> \o UrlText(response.value)))
    ELSE CallReturn(Stringify(response.value.nodes, 0))

CallResume(fr, response) ==
    IF ~response.ok THEN CallCatch(response.error)
    ELSE IF fr.at = "createIssue" THEN PayloadIssue("createIssue.issue", response.value, "Created issue: ")
    ELSE IF fr.at = "createIssue.issue"
    THEN CallReturn(Text(<<"Created issue: ">> \o UrlText(response.value)))
    ELSE IF fr.at = "updateIssue" THEN PayloadIssue("updateIssue.issue", response.value, "Updated issue: ")
    ELSE IF fr.at = "updateIssue.issue"
    THEN CallReturn(Text(<<"Updated issue: ">> \o UrlText(response.value)))
    ELSE CallReturn(Stringify(response.value.nodes, 0))

Resume(fr, response) ==
    IF fr.request.kind = "read" THEN ReadResume(fr, response) ELSE CallResume(fr, response)

\* ------------------------------------------------------ the backend client
\* what the promise awaited at a suspension point can settle with
Ok(value) == [ok |-> TRUE, value |-> value]
Rejected(error) == [ok |-> FALSE, error |-> error]

BackendErrors ==
    {[isError |-> TRUE, message |-> <<"Entity not found">>, str |-> <<"Error: ", "Entity not found">>],
     [isError |-> FALSE, message |-> <<>>, str |-> <<"rate limited">>]}

Connection == [nodes |-> [t |-> "array", items |-> <<"node">>]]
IssueObject == [t |-> "object", id |-> "I1", url |-> <<"https://linear.app/issue/I1">>]
IssuePayloads == {[success |-> TRUE, issue |-> [t |-> "fetch", id |-> "I1"]],
                  [success |-> TRUE, issue |-> Undefined]}

Settlements(at) ==
    {Rejected(e) : e \in BackendErrors} \cup
    (IF at \in {"issues", "teams", "toolTeams"} THEN {Ok(Connection)}
     ELSE IF at \in {"issue", "createIssue.issue", "updateIssue.issue"} THEN {Ok(IssueObject)}
     ELSE IF at \in {"createIssue", "updateIssue"} THEN {Ok(p) : p \in IssuePayloads}
     ELSE {})

\* ------------------------------------------------------------ the requests
ReadRequest(uri) == [kind |-> "read", params |-> [uri |-> uri]]
CallRequest(name, arguments) == [kind |-> "call", params |-> [name |-> name, arguments |-> arguments]]

RECURSIVE Flatten(_)
Flatten(ss) == IF ss = <<>> THEN <<>> ELSE Head(ss) \o Flatten(Tail(ss))

UriPieces == {IssuesPrefix, ActiveLiteral, TeamsUri, <<"X", "1">>}
Uris == {Flatten(ss) : ss \in UNION {[1..n -> UriPieces] : n \in 0..MaxPieces}}

Names == ToolNames \cup {"does_not_exist"}
ArgKeys == {"title", "description", "teamId", "priority", "issueId", "status"}
ArgValue(key) == [t |-> "value", of |-> key]
NoArguments == [present |-> FALSE]
Arguments(keys) == [present |-> TRUE, bag |-> [k \in keys |-> ArgValue(k)]]
ArgumentBags == {NoArguments} \cup {Arguments(keys) : keys \in SUBSET ArgKeys}

\* the requests dispatched while others are still suspended
SomeUris == {ActiveUri, IssuesPrefix \o <<"X", "1">>, <<"X", "1">>}
SomeCalls == {CallRequest("create_issue", Arguments({"title", "teamId"})),
              CallRequest("update_issue", Arguments({"issueId"})),
              CallRequest("read_team_ids", NoArguments),
              CallRequest("does_not_exist", NoArguments)}

\* --------------------------------------------------------------- the state
Init ==
    /\ req = [r \in Slots |-> NoRequest]
    /\ pc = [r \in Slots |-> "idle"]
    /\ frame = [r \in Slots |-> NoFrame]
    /\ calls = [r \in Slots |-> <<>>]
    /\ resps = [r \in Slots |-> <<>>]
    /\ outcome = [r \in Slots |-> NoOutcome]
    /\ hung = [r \in Slots |-> FALSE]

\* variant: the handlers keep the request in one field of the server object
FrameShared(r) == 1

\* the closure frame of invocation r: uri, content, request are locals of the
\* async arrow function, one set per invocation
FrameOf(r) == r

\* variant: continuations are run in arrival order behind a queue
CanResumeInOrder(r) ==
    /\ pc[r] = "await" /\ ~hung[r]
    /\ \A q \in Slots : q < r => pc[q] # "await"

\* a suspended handler continues when the promise it awaits settles
CanResume(r) == pc[r] = "await" /\ ~hung[r]

\* the effect of one uninterrupted run of invocation r's handler code
Apply(r, request, step) ==
    /\ pc' = [pc EXCEPT ![r] = step.pc]
    /\ frame' = [frame EXCEPT ![FrameOf(r)] =
                    IF step.pc = "await" THEN [at |-> step.at, request |-> request] ELSE NoFrame]
    /\ calls' = [calls EXCEPT ![r] = @ \o step.call]
    /\ outcome' = [outcome EXCEPT ![r] = step.outcome]
    /\ \E h \in BOOLEAN : hung' = [hung EXCEPT ![r] = (step.pc = "await") /\ h]

Idle == \A r \in Slots : pc[r] = "idle"

ReadResource(r, uri) ==
    /\ pc[r] = "idle"
    /\ req' = [req EXCEPT ![r] = ReadRequest(uri)]
    /\ Apply(r, ReadRequest(uri), ReadStart(ReadRequest(uri)))
    /\ UNCHANGED resps

CallTool(r, request) ==
    /\ pc[r] = "idle"
    /\ req' = [req EXCEPT ![r] = request]
    /\ Apply(r, request, CallStart(request))
    /\ UNCHANGED resps

\* the front-end delivers requests one after another
SerialRead == \E r \in Slots, uri \in Uris : Idle /\ ReadResource(r, uri)
SerialCall ==
    \E r \in Slots, name \in Names, arguments \in ArgumentBags :
        Idle /\ CallTool(r, CallRequest(name, arguments))

\* the hosting environment dispatches requests concurrently
ConcurrentRead == \E r \in Slots, uri \in SomeUris : ReadResource(r, uri)
ConcurrentCall == \E r \in Slots, request \in SomeCalls : CallTool(r, request)

\* the awaited backend promise settles and the handler runs on
BackendSettle(r) ==
    /\ CanResume(r)
    /\ \E response \in Settlements(frame[FrameOf(r)].at) :
          /\ resps' = [resps EXCEPT ![r] = Append(@, response)]
          /\ Apply(r, frame[FrameOf(r)].request, Resume(frame[FrameOf(r)], response))
    /\ UNCHANGED req

BackendSettles == \E r \in Slots : BackendSettle(r)

\* the front-end sends the handler's result or fault and forgets the request
Respond(r) ==
    /\ pc[r] = "done"
    /\ req' = [req EXCEPT ![r] = NoRequest]
    /\ pc' = [pc EXCEPT ![r] = "idle"]
    /\ calls' = [calls EXCEPT ![r] = <<>>]
    /\ resps' = [resps EXCEPT ![r] = <<>>]
    /\ outcome' = [outcome EXCEPT ![r] = NoOutcome]
    /\ UNCHANGED <<frame, hung>>

Responds == \E r \in Slots : Respond(r)

Next == SerialRead \/ SerialCall \/ BackendSettles \/ Responds
Spec == Init /\ [][Next]_vars

NextConcurrent == ConcurrentRead \/ ConcurrentCall \/ BackendSettles \/ Responds
SpecConcurrent == Init /\ [][NextConcurrent]_vars

FairSpecConcurrent ==
    /\ SpecConcurrent
    /\ \A r \in Slots : WF_vars(BackendSettle(r))
    /\ \A r \in Slots : WF_vars(Respond(r))

\* ================================================================ claims
Last(seq) == seq[Len(seq)]

IsRead(r) == req[r].kind = "read"
IsCall(r) == req[r].kind = "call"
Done(r) == pc[r] = "done"

\* the message m of a backend failure
FailureMessage(error) == IF error.isError THEN error.message ELSE error.str
BackendFailed(r) == resps[r] # <<>> /\ ~Last(resps[r]).ok

HasIssuesPrefix(uri) ==
    /\ Len(uri) >= Len(IssuesPrefix)
    /\ \A i \in 1..Len(IssuesPrefix) : uri[i] = IssuesPrefix[i]
Remainder(uri) == SubSeq(uri, Len(IssuesPrefix) + 1, Len(uri))
Routable(uri) == uri = ActiveUri \/ uri = TeamsUri \/ HasIssuesPrefix(uri)

Carries(text, m) == \E i \in 1..Len(text) : i + Len(m) - 1 <= Len(text) /\ SubSeq(text, i, i + Len(m) - 1) = m

\* C1: a call-tool request naming none of the three declared tools ends in a
\* method-not-found protocol fault, not in an isError result, and invokes no
\* backend operation.
C1_UnknownToolIsProtocolFault ==
    \A r \in Slots :
        (Done(r) /\ IsCall(r) /\ req[r].params.name \notin ToolNames)
            => /\ outcome[r].kind = "fault"
               /\ outcome[r].code = "MethodNotFound"
               /\ calls[r] = <<>>

\* C2: a read-resource request with an unroutable uri ends in a fault of the
\* invalid-request kind, not of the internal-error kind.
C2_UnknownResourceIsInvalidRequest ==
    \A r \in Slots :
        (Done(r) /\ IsRead(r) /\ ~Routable(req[r].params.uri))
            => /\ outcome[r].kind = "fault"
               /\ outcome[r].code = "InvalidRequest"

MissingRequired(request) ==
    \/ /\ request.params.name = "create_issue"
       /\ \/ ~request.params.arguments.present
          \/ "title" \notin DOMAIN request.params.arguments.bag
          \/ "teamId" \notin DOMAIN request.params.arguments.bag
    \/ /\ request.params.name = "update_issue"
       /\ \/ ~request.params.arguments.present
          \/ "issueId" \notin DOMAIN request.params.arguments.bag

\* C3: a create_issue or update_issue call that lacks a required argument
\* fails without any backend operation having been invoked.
C3_MissingRequiredNeverReachesBackend ==
    \A r \in Slots :
        (IsCall(r) /\ MissingRequired(req[r]))
            => /\ calls[r] = <<>>
               /\ Done(r) => (outcome[r].kind = "fault" \/ outcome[r].isError)

\* C4: when the backend operation of a declared tool fails with message m, the
\* call-tool handler raises no fault and returns isError = true with exactly
\* one text item "Linear API error: " + m.
C4_ToolFailureIsSoftResult ==
    \A r \in Slots :
        (Done(r) /\ IsCall(r) /\ req[r].params.name \in ToolNames /\ BackendFailed(r))
            => outcome[r] =
                 [kind |-> "result",
                  content |-> <<[type |-> "text",
                                 text |-> Text(<<"Linear API error: ">>
                                               \o FailureMessage(Last(resps[r]).error))]>>,
                  isError |-> TRUE]

C4_Witness ==
    \E r \in Slots :
        /\ Done(r) /\ IsCall(r) /\ req[r].params.name = "create_issue"
        /\ BackendFailed(r) /\ ~Last(resps[r]).error.isError

\* C5: when the backend operation of a routable read fails with message m, the
\* read handler returns no result and raises an internal-error fault whose
\* message carries m.
C5_ReadFailureIsInternalErrorFault ==
    \A r \in Slots :
        (Done(r) /\ IsRead(r) /\ Routable(req[r].params.uri) /\ BackendFailed(r))
            => /\ outcome[r].kind = "fault"
               /\ outcome[r].code = "InternalError"
               /\ Carries(outcome[r].message, FailureMessage(Last(resps[r]).error))

C5_Witness ==
    \E r \in Slots :
        /\ Done(r) /\ IsRead(r) /\ req[r].params.uri = TeamsUri
        /\ BackendFailed(r) /\ Last(resps[r]).error.isError

\* C6: read routing is first-match: the active-issues uri invokes only the
\* active-issues listing, the teams uri only the teams listing, any other uri
\* with the issues prefix only the issue lookup with the remainder as id; no
\* successful read carries an undefined payload.
C6_FirstMatchRouting ==
    \A r \in Slots :
        IsRead(r) =>
            LET uri == req[r].params.uri
            IN /\ uri = ActiveUri =>
                    calls[r] = <<[op |-> "issues", states |-> <<"started", "unstarted", "backlog">>]>>
               /\ uri = TeamsUri => calls[r] = <<[op |-> "teams"]>>
               /\ (HasIssuesPrefix(uri) /\ Remainder(uri) # ActiveLiteral) =>
                    calls[r] = <<[op |-> "issue", id |-> Remainder(uri)]>>
               /\ (Done(r) /\ outcome[r].kind = "result") =>
                    outcome[r].contents[1].text # Undefined

C6_Witness ==
    \E r \in Slots :
        /\ Done(r) /\ IsRead(r) /\ req[r].params.uri = ActiveUri
        /\ outcome[r].kind = "result"

\* C7: a read with a routable uri performs exactly one backend call, a
\* read-only one; a read with an unroutable uri performs none.
C7_ReadIssuesOneReadOnlyCall ==
    \A r \in Slots :
        IsRead(r) =>
            IF Routable(req[r].params.uri)
            THEN /\ Len(calls[r]) = 1
                 /\ calls[r][1].op \in {"issues", "teams", "issue"}
            ELSE calls[r] = <<>>

C7_Witness ==
    \E r \in Slots :
        /\ Done(r) /\ IsRead(r) /\ HasIssuesPrefix(req[r].params.uri)
        /\ Remainder(req[r].params.uri) = IssuesPrefix
        /\ outcome[r].kind = "result"

\* C8 (as stated): no call-tool invocation performs more than one backend
\* request, the awaited fetch of the resulting issue included.
C8_AtMostOneBackendRequest ==
    \A r \in Slots : IsCall(r) => Len(calls[r]) <= 1

Mutations(cs) == {i \in 1..Len(cs) : cs[i].op \in {"createIssue", "updateIssue"}}

\* C8 (amended): read_team_ids performs at most one backend request and an
\* undeclared tool none; create_issue and update_issue perform one mutation
\* and, only after it has succeeded, at most one fetch of the resulting issue.
C8_OneMutationThenAtMostOneFetch ==
    \A r \in Slots :
        IsCall(r) =>
            /\ Len(calls[r]) <= 2
            /\ Cardinality(Mutations(calls[r])) <= 1
            /\ req[r].params.name = "read_team_ids" => Len(calls[r]) <= 1
            /\ req[r].params.name \notin ToolNames => calls[r] = <<>>
            /\ Len(calls[r]) = 2 =>
                  /\ Mutations(calls[r]) = {1}
                  /\ calls[r][2].op = "issue"
                  /\ resps[r] # <<>> /\ resps[r][1].ok

C8_Witness ==
    \E r \in Slots :
        /\ Done(r) /\ IsCall(r) /\ req[r].params.name = "update_issue"
        /\ Len(calls[r]) = 2 /\ ~outcome[r].isError

\* the handler run alone on a request, fed the given backend responses in turn
RECURSIVE Run(_, _, _, _)
Run(request, step, responses, issued) ==
    IF responses = <<>>
    THEN [pc |-> step.pc, outcome |-> step.outcome, calls |-> issued]
    ELSE IF step.pc # "await" \/ Head(responses) \notin Settlements(step.at)
    THEN [pc |-> "mismatch", outcome |-> NoOutcome, calls |-> issued]
    ELSE LET next == Resume([at |-> step.at, request |-> request], Head(responses))
         IN Run(request, next, Tail(responses), issued \o next.call)

Alone(request, responses) ==
    LET first == IF request.kind = "read" THEN ReadStart(request) ELSE CallStart(request)
    IN Run(request, first, responses, first.call)

\* C9: with several requests in flight and their continuations interleaved,
\* each request's outcome and the backend calls it issues are those of the
\* same request handled alone with the same backend responses.
C9_NoInterference ==
    \A r \in Slots :
        pc[r] # "idle" =>
            /\ pc[r] = Alone(req[r], resps[r]).pc
            /\ calls[r] = Alone(req[r], resps[r]).calls
            /\ outcome[r] = Alone(req[r], resps[r]).outcome

C9_Witness ==
    \E r \in Slots, q \in Slots :
        /\ r # q
        /\ Done(r) /\ IsRead(r) /\ resps[r] # <<>>
        /\ Done(q) /\ IsCall(q) /\ Len(resps[q]) = 2

IsErrorOutcome(out) == out.kind = "fault" \/ (out.kind = "result" /\ out.isError)

\* C10: a backend call that never returns blocks only its own request: every
\* suspended request eventually completes unless its own call hangs; a failed
\* backend call is not retried and is at once the request's error outcome.
C10_HungCallBlocksOnlyItsRequest ==
    /\ \A r \in Slots : (pc[r] = "await") ~> (pc[r] = "done" \/ (pc[r] = "await" /\ hung[r]))
    /\ [][\A r \in Slots :
            (Len(resps'[r]) = Len(resps[r]) + 1 /\ ~Last(resps'[r]).ok)
                => /\ pc'[r] = "done"
                   /\ IsErrorOutcome(outcome'[r])
                   /\ calls'[r] = calls[r]]_vars

C10_Witness ==
    \E r \in Slots, q \in Slots :
        /\ r # q
        /\ pc[r] = "await" /\ hung[r]
        /\ Done(q) /\ resps[q] # <<>>

====
